---- MODULE Spec2Model ----
(***************************************************************************)
(* The TickTick OAuth authentication command line utility                  *)
(* (ticktick_mcp/authenticate.py): main(), select_version() and            *)
(* get_user_input(), together with the collaborators main() calls          *)
(* (TickTickAuth, VERSION_CONFIGS of ticktick_mcp/src/auth.py), which are  *)
(* modelled from the written specification.                                *)
(*                                                                         *)
(* A Python str is the sequence of its Unicode code points; T("abc") is    *)
(* the str of a literal.  An Optional value is a tuple: <<>> is None and   *)
(* <<v>> is the value v.  The labels of the model itself (pc, typedFor,    *)
(* failure, the outcome of the flow) are TLA+ strings.                     *)
(***************************************************************************)
EXTENDS Integers, Sequences, FiniteSets, TLC

VARIABLES
    pc,                \* position of main()
    file,              \* the .env file: [exists, lines]
    file0,             \* history: the .env file when main() started
    selected_version,  \* main: selected_version (Optional)
    has_credentials,   \* main: has_credentials
    answer,            \* history: raw answer to the reuse prompt (Optional)
                       \*   until TickTickAuth is constructed
    client_id,         \* main: client_id (Optional[str])
    client_secret,     \* main: client_secret (Optional[str])
    typed,             \* history: raw inputs given to the prompt loop typedFor
                       \*   until the next prompt or the construction
    typedFor,          \* which prompt loop typed belongs to
    auth,              \* the TickTickAuth object (Optional record)
    flow,              \* the authorization flow: AuthorizationState, outcome
    authCalls,         \* history: number of calls of auth.start_auth_flow()
    result,            \* main: result (Optional[str])
    exit,              \* return value of main() (Optional int)
    failure            \* exception that ended main(), "" when none

vars == <<pc, file, file0, selected_version, has_credentials, answer,
          client_id, client_secret, typed, typedFor, auth, flow, authCalls,
          result, exit, failure>>

-----------------------------------------------------------------------------
(* Bounds *)

\* rejected inputs allowed in one prompt loop before a valid one is typed
MaxRetries == 2
\* lines of the initial .env file besides the credential and token blocks
MaxExtraLines == 1

-----------------------------------------------------------------------------
(* Optional values *)

None == <<>>
Some(v) == <<v>>
IsNone(o) == Len(o) = 0
IsSome(o) == Len(o) = 1
Val(o) == o[1]

-----------------------------------------------------------------------------
(* Python str: a string is the sequence of its Unicode code points *)

\* the characters of a literal of this module: the tab and the printable
\* ASCII characters, the grave accent excepted
AsciiUpTo95 ==
    " !\"#$%&'()*+,-./0123456789:;<=>?@ABCDEFGHIJKLMNOPQRSTUVWXYZ[\\]^_"
AsciiFrom97 == "abcdefghijklmnopqrstuvwxyz{|}~"

\* ord(ch) of a one-character literal
Ord(ch) ==
    IF ch = "\t" THEN 9
    ELSE IF \E i \in 1..Len(AsciiUpTo95) : SubSeq(AsciiUpTo95, i, i) = ch
    THEN 31 + (CHOOSE i \in 1..Len(AsciiUpTo95) :
                    SubSeq(AsciiUpTo95, i, i) = ch)
    ELSE 96 + (CHOOSE i \in 1..Len(AsciiFrom97) :
                    SubSeq(AsciiFrom97, i, i) = ch)

\* the str a literal denotes
T(lit) == [i \in 1..Len(lit) |-> Ord(SubSeq(lit, i, i))]

\* str(n) of an int
RECURSIVE Digits(_)
Digits(n) ==
    IF n < 10 THEN <<48 + n>>
    ELSE Append(Digits(n \div 10), 48 + (n % 10))
Decimal(n) == IF n < 0 THEN <<45>> \o Digits(0 - n) ELSE Digits(n)

\* the code points str.strip() removes (str.isspace): U+0009-U+000D,
\* U+001C-U+0020, U+0085, U+00A0, U+1680, U+2000-U+200A, U+2028, U+2029,
\* U+202F, U+205F, U+3000
Whitespace ==
    (9..13) \cup (28..32) \cup {133, 160, 5760} \cup (8192..8202)
        \cup {8232, 8233, 8239, 8287, 12288}

RECURSIVE LStrip(_)
LStrip(s) ==
    IF Len(s) > 0 /\ s[1] \in Whitespace
    THEN LStrip(SubSeq(s, 2, Len(s)))
    ELSE s

RECURSIVE RStrip(_)
RStrip(s) ==
    IF Len(s) > 0 /\ s[Len(s)] \in Whitespace
    THEN RStrip(SubSeq(s, 1, Len(s) - 1))
    ELSE s

\* str.strip()
Strip(s) == RStrip(LStrip(s))

\* The case tables of str.lower() (Unicode 14.0, CPython 3.11).
\* <<first, last, step, delta>>: the code points first, first + step, ...,
\* last have the lower-case form code point + delta
LowerRanges ==
    { <<65,90,1,32>>, <<192,214,1,32>>, <<216,222,1,32>>, <<256,302,2,1>>,
      <<306,310,2,1>>, <<313,327,2,1>>, <<330,374,2,1>>, <<376,376,1,-121>>,
      <<377,381,2,1>>, <<385,385,1,210>>, <<386,388,2,1>>, <<390,390,1,206>>,
      <<391,391,1,1>>, <<393,394,1,205>>, <<395,395,1,1>>, <<398,398,1,79>>,
      <<399,399,1,202>>, <<400,400,1,203>>, <<401,401,1,1>>,
      <<403,403,1,205>>, <<404,404,1,207>>, <<406,406,1,211>>,
      <<407,407,1,209>>, <<408,408,1,1>>, <<412,412,1,211>>,
      <<413,413,1,213>>, <<415,415,1,214>>, <<416,420,2,1>>,
      <<422,422,1,218>>, <<423,423,1,1>>, <<425,425,1,218>>, <<428,428,1,1>>,
      <<430,430,1,218>>, <<431,431,1,1>>, <<433,434,1,217>>, <<435,437,2,1>>,
      <<439,439,1,219>>, <<440,440,1,1>>, <<444,444,1,1>>, <<452,452,1,2>>,
      <<453,453,1,1>>, <<455,455,1,2>>, <<456,456,1,1>>, <<458,458,1,2>>,
      <<459,475,2,1>>, <<478,494,2,1>>, <<497,497,1,2>>, <<498,500,2,1>>,
      <<502,502,1,-97>>, <<503,503,1,-56>>, <<504,542,2,1>>,
      <<544,544,1,-130>>, <<546,562,2,1>>, <<570,570,1,10795>>,
      <<571,571,1,1>>, <<573,573,1,-163>>, <<574,574,1,10792>>,
      <<577,577,1,1>>, <<579,579,1,-195>>, <<580,580,1,69>>, <<581,581,1,71>>,
      <<582,590,2,1>>, <<880,882,2,1>>, <<886,886,1,1>>, <<895,895,1,116>>,
      <<902,902,1,38>>, <<904,906,1,37>>, <<908,908,1,64>>, <<910,911,1,63>>,
      <<913,929,1,32>>, <<931,939,1,32>>, <<975,975,1,8>>, <<984,1006,2,1>>,
      <<1012,1012,1,-60>>, <<1015,1015,1,1>>, <<1017,1017,1,-7>>,
      <<1018,1018,1,1>>, <<1021,1023,1,-130>>, <<1024,1039,1,80>>,
      <<1040,1071,1,32>>, <<1120,1152,2,1>>, <<1162,1214,2,1>>,
      <<1216,1216,1,15>>, <<1217,1229,2,1>>, <<1232,1326,2,1>>,
      <<1329,1366,1,48>>, <<4256,4293,1,7264>>, <<4295,4295,1,7264>>,
      <<4301,4301,1,7264>>, <<5024,5103,1,38864>>, <<5104,5109,1,8>>,
      <<7312,7354,1,-3008>>, <<7357,7359,1,-3008>>, <<7680,7828,2,1>>,
      <<7838,7838,1,-7615>>, <<7840,7934,2,1>>, <<7944,7951,1,-8>>,
      <<7960,7965,1,-8>>, <<7976,7983,1,-8>>, <<7992,7999,1,-8>>,
      <<8008,8013,1,-8>>, <<8025,8031,2,-8>>, <<8040,8047,1,-8>>,
      <<8072,8079,1,-8>>, <<8088,8095,1,-8>>, <<8104,8111,1,-8>>,
      <<8120,8121,1,-8>>, <<8122,8123,1,-74>>, <<8124,8124,1,-9>>,
      <<8136,8139,1,-86>>, <<8140,8140,1,-9>>, <<8152,8153,1,-8>>,
      <<8154,8155,1,-100>>, <<8168,8169,1,-8>>, <<8170,8171,1,-112>>,
      <<8172,8172,1,-7>>, <<8184,8185,1,-128>>, <<8186,8187,1,-126>>,
      <<8188,8188,1,-9>>, <<8486,8486,1,-7517>>, <<8490,8490,1,-8383>>,
      <<8491,8491,1,-8262>>, <<8498,8498,1,28>>, <<8544,8559,1,16>>,
      <<8579,8579,1,1>>, <<9398,9423,1,26>>, <<11264,11311,1,48>>,
      <<11360,11360,1,1>>, <<11362,11362,1,-10743>>, <<11363,11363,1,-3814>>,
      <<11364,11364,1,-10727>>, <<11367,11371,2,1>>, <<11373,11373,1,-10780>>,
      <<11374,11374,1,-10749>>, <<11375,11375,1,-10783>>,
      <<11376,11376,1,-10782>>, <<11378,11378,1,1>>, <<11381,11381,1,1>>,
      <<11390,11391,1,-10815>>, <<11392,11490,2,1>>, <<11499,11501,2,1>>,
      <<11506,11506,1,1>>, <<42560,42604,2,1>>, <<42624,42650,2,1>>,
      <<42786,42798,2,1>>, <<42802,42862,2,1>>, <<42873,42875,2,1>>,
      <<42877,42877,1,-35332>>, <<42878,42886,2,1>>, <<42891,42891,1,1>>,
      <<42893,42893,1,-42280>>, <<42896,42898,2,1>>, <<42902,42920,2,1>>,
      <<42922,42922,1,-42308>>, <<42923,42923,1,-42319>>,
      <<42924,42924,1,-42315>>, <<42925,42925,1,-42305>>,
      <<42926,42926,1,-42308>>, <<42928,42928,1,-42258>>,
      <<42929,42929,1,-42282>>, <<42930,42930,1,-42261>>,
      <<42931,42931,1,928>>, <<42932,42946,2,1>>, <<42948,42948,1,-48>>,
      <<42949,42949,1,-42307>>, <<42950,42950,1,-35384>>, <<42951,42953,2,1>>,
      <<42960,42960,1,1>>, <<42966,42968,2,1>>, <<42997,42997,1,1>>,
      <<65313,65338,1,32>>, <<66560,66599,1,40>>, <<66736,66771,1,40>>,
      <<66928,66938,1,39>>, <<66940,66954,1,39>>, <<66956,66962,1,39>>,
      <<66964,66965,1,39>>, <<68736,68786,1,64>>, <<71840,71871,1,32>>,
      <<93760,93791,1,32>>, <<125184,125217,1,34>> }

\* <<first, last>>: code points that are cased and not case-ignorable
CasedRanges ==
    { <<65,90>>, <<97,122>>, <<170,170>>, <<181,181>>, <<186,186>>,
      <<192,214>>, <<216,246>>, <<248,442>>, <<444,447>>, <<452,659>>,
      <<661,687>>, <<880,883>>, <<886,887>>, <<891,893>>, <<895,895>>,
      <<902,902>>, <<904,906>>, <<908,908>>, <<910,929>>, <<931,1013>>,
      <<1015,1153>>, <<1162,1327>>, <<1329,1366>>, <<1376,1416>>,
      <<4256,4293>>, <<4295,4295>>, <<4301,4301>>, <<4304,4346>>,
      <<4349,4351>>, <<5024,5109>>, <<5112,5117>>, <<7296,7304>>,
      <<7312,7354>>, <<7357,7359>>, <<7424,7467>>, <<7531,7543>>,
      <<7545,7578>>, <<7680,7957>>, <<7960,7965>>, <<7968,8005>>,
      <<8008,8013>>, <<8016,8023>>, <<8025,8025>>, <<8027,8027>>,
      <<8029,8029>>, <<8031,8061>>, <<8064,8116>>, <<8118,8124>>,
      <<8126,8126>>, <<8130,8132>>, <<8134,8140>>, <<8144,8147>>,
      <<8150,8155>>, <<8160,8172>>, <<8178,8180>>, <<8182,8188>>,
      <<8450,8450>>, <<8455,8455>>, <<8458,8467>>, <<8469,8469>>,
      <<8473,8477>>, <<8484,8484>>, <<8486,8486>>, <<8488,8488>>,
      <<8490,8493>>, <<8495,8500>>, <<8505,8505>>, <<8508,8511>>,
      <<8517,8521>>, <<8526,8526>>, <<8544,8575>>, <<8579,8580>>,
      <<9398,9449>>, <<11264,11387>>, <<11390,11492>>, <<11499,11502>>,
      <<11506,11507>>, <<11520,11557>>, <<11559,11559>>, <<11565,11565>>,
      <<42560,42605>>, <<42624,42651>>, <<42786,42863>>, <<42865,42887>>,
      <<42891,42894>>, <<42896,42954>>, <<42960,42961>>, <<42963,42963>>,
      <<42965,42969>>, <<42997,42998>>, <<43002,43002>>, <<43824,43866>>,
      <<43872,43880>>, <<43888,43967>>, <<64256,64262>>, <<64275,64279>>,
      <<65313,65338>>, <<65345,65370>>, <<66560,66639>>, <<66736,66771>>,
      <<66776,66811>>, <<66928,66938>>, <<66940,66954>>, <<66956,66962>>,
      <<66964,66965>>, <<66967,66977>>, <<66979,66993>>, <<66995,67001>>,
      <<67003,67004>>, <<68736,68786>>, <<68800,68850>>, <<71840,71903>>,
      <<93760,93823>>, <<119808,119892>>, <<119894,119964>>,
      <<119966,119967>>, <<119970,119970>>, <<119973,119974>>,
      <<119977,119980>>, <<119982,119993>>, <<119995,119995>>,
      <<119997,120003>>, <<120005,120069>>, <<120071,120074>>,
      <<120077,120084>>, <<120086,120092>>, <<120094,120121>>,
      <<120123,120126>>, <<120128,120132>>, <<120134,120134>>,
      <<120138,120144>>, <<120146,120485>>, <<120488,120512>>,
      <<120514,120538>>, <<120540,120570>>, <<120572,120596>>,
      <<120598,120628>>, <<120630,120654>>, <<120656,120686>>,
      <<120688,120712>>, <<120714,120744>>, <<120746,120770>>,
      <<120772,120779>>, <<122624,122633>>, <<122635,122654>>,
      <<125184,125251>>, <<127280,127305>>, <<127312,127337>>,
      <<127344,127369>> }

\* <<first, last>>: case-ignorable code points
CaseIgnorableRanges ==
    { <<39,39>>, <<46,46>>, <<58,58>>, <<94,94>>, <<96,96>>, <<168,168>>,
      <<173,173>>, <<175,175>>, <<180,180>>, <<183,184>>, <<688,879>>,
      <<884,885>>, <<890,890>>, <<900,901>>, <<903,903>>, <<1155,1161>>,
      <<1369,1369>>, <<1375,1375>>, <<1425,1469>>, <<1471,1471>>,
      <<1473,1474>>, <<1476,1477>>, <<1479,1479>>, <<1524,1524>>,
      <<1536,1541>>, <<1552,1562>>, <<1564,1564>>, <<1600,1600>>,
      <<1611,1631>>, <<1648,1648>>, <<1750,1757>>, <<1759,1768>>,
      <<1770,1773>>, <<1807,1807>>, <<1809,1809>>, <<1840,1866>>,
      <<1958,1968>>, <<2027,2037>>, <<2042,2042>>, <<2045,2045>>,
      <<2070,2093>>, <<2137,2139>>, <<2184,2184>>, <<2192,2193>>,
      <<2200,2207>>, <<2249,2306>>, <<2362,2362>>, <<2364,2364>>,
      <<2369,2376>>, <<2381,2381>>, <<2385,2391>>, <<2402,2403>>,
      <<2417,2417>>, <<2433,2433>>, <<2492,2492>>, <<2497,2500>>,
      <<2509,2509>>, <<2530,2531>>, <<2558,2558>>, <<2561,2562>>,
      <<2620,2620>>, <<2625,2626>>, <<2631,2632>>, <<2635,2637>>,
      <<2641,2641>>, <<2672,2673>>, <<2677,2677>>, <<2689,2690>>,
      <<2748,2748>>, <<2753,2757>>, <<2759,2760>>, <<2765,2765>>,
      <<2786,2787>>, <<2810,2815>>, <<2817,2817>>, <<2876,2876>>,
      <<2879,2879>>, <<2881,2884>>, <<2893,2893>>, <<2901,2902>>,
      <<2914,2915>>, <<2946,2946>>, <<3008,3008>>, <<3021,3021>>,
      <<3072,3072>>, <<3076,3076>>, <<3132,3132>>, <<3134,3136>>,
      <<3142,3144>>, <<3146,3149>>, <<3157,3158>>, <<3170,3171>>,
      <<3201,3201>>, <<3260,3260>>, <<3263,3263>>, <<3270,3270>>,
      <<3276,3277>>, <<3298,3299>>, <<3328,3329>>, <<3387,3388>>,
      <<3393,3396>>, <<3405,3405>>, <<3426,3427>>, <<3457,3457>>,
      <<3530,3530>>, <<3538,3540>>, <<3542,3542>>, <<3633,3633>>,
      <<3636,3642>>, <<3654,3662>>, <<3761,3761>>, <<3764,3772>>,
      <<3782,3782>>, <<3784,3789>>, <<3864,3865>>, <<3893,3893>>,
      <<3895,3895>>, <<3897,3897>>, <<3953,3966>>, <<3968,3972>>,
      <<3974,3975>>, <<3981,3991>>, <<3993,4028>>, <<4038,4038>>,
      <<4141,4144>>, <<4146,4151>>, <<4153,4154>>, <<4157,4158>>,
      <<4184,4185>>, <<4190,4192>>, <<4209,4212>>, <<4226,4226>>,
      <<4229,4230>>, <<4237,4237>>, <<4253,4253>>, <<4348,4348>>,
      <<4957,4959>>, <<5906,5908>>, <<5938,5939>>, <<5970,5971>>,
      <<6002,6003>>, <<6068,6069>>, <<6071,6077>>, <<6086,6086>>,
      <<6089,6099>>, <<6103,6103>>, <<6109,6109>>, <<6155,6159>>,
      <<6211,6211>>, <<6277,6278>>, <<6313,6313>>, <<6432,6434>>,
      <<6439,6440>>, <<6450,6450>>, <<6457,6459>>, <<6679,6680>>,
      <<6683,6683>>, <<6742,6742>>, <<6744,6750>>, <<6752,6752>>,
      <<6754,6754>>, <<6757,6764>>, <<6771,6780>>, <<6783,6783>>,
      <<6823,6823>>, <<6832,6862>>, <<6912,6915>>, <<6964,6964>>,
      <<6966,6970>>, <<6972,6972>>, <<6978,6978>>, <<7019,7027>>,
      <<7040,7041>>, <<7074,7077>>, <<7080,7081>>, <<7083,7085>>,
      <<7142,7142>>, <<7144,7145>>, <<7149,7149>>, <<7151,7153>>,
      <<7212,7219>>, <<7222,7223>>, <<7288,7293>>, <<7376,7378>>,
      <<7380,7392>>, <<7394,7400>>, <<7405,7405>>, <<7412,7412>>,
      <<7416,7417>>, <<7468,7530>>, <<7544,7544>>, <<7579,7679>>,
      <<8125,8125>>, <<8127,8129>>, <<8141,8143>>, <<8157,8159>>,
      <<8173,8175>>, <<8189,8190>>, <<8203,8207>>, <<8216,8217>>,
      <<8228,8228>>, <<8231,8231>>, <<8234,8238>>, <<8288,8292>>,
      <<8294,8303>>, <<8305,8305>>, <<8319,8319>>, <<8336,8348>>,
      <<8400,8432>>, <<11388,11389>>, <<11503,11505>>, <<11631,11631>>,
      <<11647,11647>>, <<11744,11775>>, <<11823,11823>>, <<12293,12293>>,
      <<12330,12333>>, <<12337,12341>>, <<12347,12347>>, <<12441,12446>>,
      <<12540,12542>>, <<40981,40981>>, <<42232,42237>>, <<42508,42508>>,
      <<42607,42610>>, <<42612,42621>>, <<42623,42623>>, <<42652,42655>>,
      <<42736,42737>>, <<42752,42785>>, <<42864,42864>>, <<42888,42890>>,
      <<42994,42996>>, <<43000,43001>>, <<43010,43010>>, <<43014,43014>>,
      <<43019,43019>>, <<43045,43046>>, <<43052,43052>>, <<43204,43205>>,
      <<43232,43249>>, <<43263,43263>>, <<43302,43309>>, <<43335,43345>>,
      <<43392,43394>>, <<43443,43443>>, <<43446,43449>>, <<43452,43453>>,
      <<43471,43471>>, <<43493,43494>>, <<43561,43566>>, <<43569,43570>>,
      <<43573,43574>>, <<43587,43587>>, <<43596,43596>>, <<43632,43632>>,
      <<43644,43644>>, <<43696,43696>>, <<43698,43700>>, <<43703,43704>>,
      <<43710,43711>>, <<43713,43713>>, <<43741,43741>>, <<43756,43757>>,
      <<43763,43764>>, <<43766,43766>>, <<43867,43871>>, <<43881,43883>>,
      <<44005,44005>>, <<44008,44008>>, <<44013,44013>>, <<64286,64286>>,
      <<64434,64450>>, <<65024,65039>>, <<65043,65043>>, <<65056,65071>>,
      <<65106,65106>>, <<65109,65109>>, <<65279,65279>>, <<65287,65287>>,
      <<65294,65294>>, <<65306,65306>>, <<65342,65342>>, <<65344,65344>>,
      <<65392,65392>>, <<65438,65439>>, <<65507,65507>>, <<65529,65531>>,
      <<66045,66045>>, <<66272,66272>>, <<66422,66426>>, <<67456,67461>>,
      <<67463,67504>>, <<67506,67514>>, <<68097,68099>>, <<68101,68102>>,
      <<68108,68111>>, <<68152,68154>>, <<68159,68159>>, <<68325,68326>>,
      <<68900,68903>>, <<69291,69292>>, <<69446,69456>>, <<69506,69509>>,
      <<69633,69633>>, <<69688,69702>>, <<69744,69744>>, <<69747,69748>>,
      <<69759,69761>>, <<69811,69814>>, <<69817,69818>>, <<69821,69821>>,
      <<69826,69826>>, <<69837,69837>>, <<69888,69890>>, <<69927,69931>>,
      <<69933,69940>>, <<70003,70003>>, <<70016,70017>>, <<70070,70078>>,
      <<70089,70092>>, <<70095,70095>>, <<70191,70193>>, <<70196,70196>>,
      <<70198,70199>>, <<70206,70206>>, <<70367,70367>>, <<70371,70378>>,
      <<70400,70401>>, <<70459,70460>>, <<70464,70464>>, <<70502,70508>>,
      <<70512,70516>>, <<70712,70719>>, <<70722,70724>>, <<70726,70726>>,
      <<70750,70750>>, <<70835,70840>>, <<70842,70842>>, <<70847,70848>>,
      <<70850,70851>>, <<71090,71093>>, <<71100,71101>>, <<71103,71104>>,
      <<71132,71133>>, <<71219,71226>>, <<71229,71229>>, <<71231,71232>>,
      <<71339,71339>>, <<71341,71341>>, <<71344,71349>>, <<71351,71351>>,
      <<71453,71455>>, <<71458,71461>>, <<71463,71467>>, <<71727,71735>>,
      <<71737,71738>>, <<71995,71996>>, <<71998,71998>>, <<72003,72003>>,
      <<72148,72151>>, <<72154,72155>>, <<72160,72160>>, <<72193,72202>>,
      <<72243,72248>>, <<72251,72254>>, <<72263,72263>>, <<72273,72278>>,
      <<72281,72283>>, <<72330,72342>>, <<72344,72345>>, <<72752,72758>>,
      <<72760,72765>>, <<72767,72767>>, <<72850,72871>>, <<72874,72880>>,
      <<72882,72883>>, <<72885,72886>>, <<73009,73014>>, <<73018,73018>>,
      <<73020,73021>>, <<73023,73029>>, <<73031,73031>>, <<73104,73105>>,
      <<73109,73109>>, <<73111,73111>>, <<73459,73460>>, <<78896,78904>>,
      <<92912,92916>>, <<92976,92982>>, <<92992,92995>>, <<94031,94031>>,
      <<94095,94111>>, <<94176,94177>>, <<94179,94180>>, <<110576,110579>>,
      <<110581,110587>>, <<110589,110590>>, <<113821,113822>>,
      <<113824,113827>>, <<118528,118573>>, <<118576,118598>>,
      <<119143,119145>>, <<119155,119170>>, <<119173,119179>>,
      <<119210,119213>>, <<119362,119364>>, <<121344,121398>>,
      <<121403,121452>>, <<121461,121461>>, <<121476,121476>>,
      <<121499,121503>>, <<121505,121519>>, <<122880,122886>>,
      <<122888,122904>>, <<122907,122913>>, <<122915,122916>>,
      <<122918,122922>>, <<123184,123197>>, <<123566,123566>>,
      <<123628,123631>>, <<125136,125142>>, <<125252,125259>>,
      <<127995,127999>>, <<917505,917505>>, <<917536,917631>>,
      <<917760,917999>> }

InRanges(c, ranges) == \E r \in ranges : r[1] <= c /\ c <= r[2]
IsCased(c) == InRanges(c, CasedRanges)
IsCaseIgnorable(c) == InRanges(c, CaseIgnorableRanges)

LowerRangeOf(c) ==
    {r \in LowerRanges : r[1] <= c /\ c <= r[2] /\ (c - r[1]) % r[3] = 0}

\* the lower-case form of one code point that is not the capital sigma:
\* one code point, or two for U+0130
LowerChar(c) ==
    IF c < 128 THEN (IF c \in 65..90 THEN <<c + 32>> ELSE <<c>>)
    ELSE IF c = 304 THEN <<105, 775>>
    ELSE IF LowerRangeOf(c) # {}
    THEN <<c + (CHOOSE r \in LowerRangeOf(c) : TRUE)[4]>>
    ELSE <<c>>

\* the last position before i (first position after i) whose code point is
\* not case-ignorable, 0 (Len(s) + 1) when there is none
RECURSIVE SkipBack(_, _)
SkipBack(s, j) ==
    IF j = 0 \/ ~IsCaseIgnorable(s[j]) THEN j ELSE SkipBack(s, j - 1)
RECURSIVE SkipForward(_, _)
SkipForward(s, j) ==
    IF j > Len(s) \/ ~IsCaseIgnorable(s[j]) THEN j ELSE SkipForward(s, j + 1)

\* the capital sigma at position i ends a word
FinalSigma(s, i) ==
    LET j == SkipBack(s, i - 1)
        k == SkipForward(s, i + 1)
    IN /\ j > 0
       /\ IsCased(s[j])
       /\ (k > Len(s) \/ ~IsCased(s[k]))

RECURSIVE LowerFrom(_, _)
LowerFrom(s, i) ==
    IF i > Len(s) THEN <<>>
    ELSE (IF s[i] = 931
          THEN (IF FinalSigma(s, i) THEN <<962>> ELSE <<963>>)
          ELSE LowerChar(s[i])) \o LowerFrom(s, i + 1)

\* str.lower()
Lower(s) == LowerFrom(s, 1)

\* needle in hay
IsSubstring(needle, hay) ==
    \E i \in 1..(Len(hay) - Len(needle) + 1) :
        SubSeq(hay, i, i + Len(needle) - 1) = needle

-----------------------------------------------------------------------------
(* The persisted store: a flat key=value text file *)

CLIENT_ID_KEY == T("TICKTICK_CLIENT_ID")
CLIENT_SECRET_KEY == T("TICKTICK_CLIENT_SECRET")
VERSION_KEY == T("TICKTICK_VERSION")
ACCESS_TOKEN_KEY == T("TICKTICK_ACCESS_TOKEN")
REFRESH_TOKEN_KEY == T("TICKTICK_REFRESH_TOKEN")
TOKEN_EXPIRY_KEY == T("TICKTICK_TOKEN_EXPIRY")

TokenKeys == {ACCESS_TOKEN_KEY, REFRESH_TOKEN_KEY, TOKEN_EXPIRY_KEY}
CredentialKeys == {CLIENT_ID_KEY, CLIENT_SECRET_KEY}

NoFile == [exists |-> FALSE, lines |-> <<>>]
FileOf(ls) == [exists |-> TRUE, lines |-> ls]

\* f.read(): the lines of the file, each ended by a newline
RECURSIVE JoinLines(_)
JoinLines(ls) ==
    IF Len(ls) = 0 THEN <<>>
    ELSE Head(ls) \o <<10>> \o JoinLines(Tail(ls))

Content(f) == JoinLines(f.lines)

\* position of the first c in s from position i on, 0 when there is none
RECURSIVE FindChar(_, _, _)
FindChar(s, c, i) ==
    IF i > Len(s) THEN 0
    ELSE IF s[i] = c THEN i
    ELSE FindChar(s, c, i + 1)

EqualsAt(line) == FindChar(line, Ord("="), 1)
HasEquals(line) == EqualsAt(line) # 0

IsComment(line) ==
    LET t == LStrip(line) IN Len(t) > 0 /\ t[1] = Ord("#")

\* a line binds a key when it is no comment and has the form key=value
IsBinding(line) == ~IsComment(line) /\ HasEquals(line)
LineKey(line) == Strip(SubSeq(line, 1, EqualsAt(line) - 1))
LineValue(line) == Strip(SubSeq(line, EqualsAt(line) + 1, Len(line)))
Binds(line, key) ==
    LET eq == EqualsAt(line)
    IN /\ eq # 0
       /\ ~IsComment(line)
       /\ Strip(SubSeq(line, 1, eq - 1)) = key

\* the last of the lines 1..i that binds key, 0 when none does
RECURSIVE LastBinding(_, _, _)
LastBinding(ls, key, i) ==
    IF i = 0 THEN 0
    ELSE IF Binds(ls[i], key) THEN i
    ELSE LastBinding(ls, key, i - 1)

HasKey(f, key) ==
    f.exists /\ LastBinding(f.lines, key, Len(f.lines)) # 0

\* load(): the value of a key, None when the file or the key is missing;
\* of two bindings of a key the later one counts
Lookup(f, key) ==
    LET last == LastBinding(f.lines, key, Len(f.lines))
    IN IF f.exists /\ last # 0
       THEN Some(LineValue(f.lines[last]))
       ELSE None

\* read-modify-write of one key, every other line kept
SetKey(f, key, value) ==
    IF HasKey(f, key)
    THEN FileOf([i \in 1..Len(f.lines) |->
                    IF Binds(f.lines[i], key)
                    THEN key \o T("=") \o value
                    ELSE f.lines[i]])
    ELSE FileOf(Append(f.lines, key \o T("=") \o value))

\* saveDeploymentSelection with a fault: the file is rewritten with the
\* selection alone
saveDeploymentSelection_Truncating(f, key) ==
    FileOf(<<VERSION_KEY \o T("=") \o key>>)

saveDeploymentSelection(f, key) == SetKey(f, VERSION_KEY, key)

saveTokens(f, record) ==
    LET f1 == SetKey(f, ACCESS_TOKEN_KEY, record.accessToken)
        f2 == IF IsSome(record.refreshToken)
              THEN SetKey(f1, REFRESH_TOKEN_KEY, Val(record.refreshToken))
              ELSE f1
    IN SetKey(f2, TOKEN_EXPIRY_KEY, Decimal(record.expiresAt))

-----------------------------------------------------------------------------
(* DeploymentRegistry *)

DeploymentKeys == {T("international"), T("china")}

VERSION_CONFIGS ==
    [k \in DeploymentKeys |->
        IF k = T("international")
        THEN [key |-> k, name |-> T("TickTick International"),
              account_url |-> T("ticktick.com"),
              developer_url |-> T("developer.ticktick.com"),
              authorizationEndpoint |-> T("https://ticktick.com/oauth/authorize"),
              tokenEndpoint |-> T("https://ticktick.com/oauth/token")]
        ELSE [key |-> k, name |-> T("TickTick China"),
              account_url |-> T("dida365.com"),
              developer_url |-> T("developer.dida365.com"),
              authorizationEndpoint |-> T("https://dida365.com/oauth/authorize"),
              tokenEndpoint |-> T("https://dida365.com/oauth/token")]]

-----------------------------------------------------------------------------
(* What the user, the file system and the provider can do *)

\* typed lines padded with white space other than the blank: VT and EM SPACE,
\* FS and NEL, NBSP and TAB, LINE SEPARATOR and US
PaddedChoice == <<11>> \o T("2") \o <<8195>>
PaddedYes == <<28>> \o T("Y") \o <<133>>
BlankLine == <<160, 9>>
PaddedValue == <<8232>> \o T("a b") \o <<31>>
\* a capital letter outside ASCII: Y WITH ACUTE
AccentedYes == <<221>>

\* answers to "Please enter your choice (1/2): "
VersionInputs == {T("1"), PaddedChoice, T("3"), T("")}

\* answers to "Do you want to use these credentials? (y/n): "
AnswerInputs == {T("y"), PaddedYes, AccentedYes, T("yes"), T("")}

\* answers to the prompts of get_user_input
UserInputs == {T(""), BlankLine, T("CID1"), PaddedValue}

\* the .env file main() can find: a credential block, a token block of an
\* earlier run and up to MaxExtraLines other lines
CredentialBlocks ==
    { <<>>,
      <<T("TICKTICK_CLIENT_ID=CID0"), T("TICKTICK_CLIENT_SECRET=SEC0")>>,
      <<T("TICKTICK_CLIENT_ID="), T("TICKTICK_CLIENT_SECRET=")>>,
      <<T("TICKTICK_CLIENT_ID=CID0")>> }

TokenBlocks ==
    { <<>>,
      <<T("TICKTICK_VERSION=china"), T("TICKTICK_ACCESS_TOKEN=AT0"),
        T("TICKTICK_REFRESH_TOKEN=RT0"), T("TICKTICK_TOKEN_EXPIRY=500")>> }

ExtraLines ==
    { T("# TICKTICK_CLIENT_ID and TICKTICK_CLIENT_SECRET go here"),
      T("OLD_TICKTICK_CLIENT_SECRET=x"),
      T("NOTE=TICKTICK_CLIENT_ID") }

SeqsUpTo(S, n) == UNION {[1..k -> S] : k \in 0..n}

InitialFiles ==
    {NoFile} \cup
    { FileOf(c \o t \o e) :
        c \in CredentialBlocks, t \in TokenBlocks,
        e \in SeqsUpTo(ExtraLines, MaxExtraLines) }

\* state values the flow generates, and the state of a redirect that
\* belongs to no running flow
Nonces == {T("n-81c3")}
RedirectStates == Nonces \cup {T("n-stale")}

\* what arrives on the local callback endpoint, or nothing in time
RedirectEvents ==
    [kind : {"code"}, state : RedirectStates, code : {T("AUTHCODE")}, error : {T("")}]
    \cup [kind : {"error"}, state : RedirectStates, code : {T("")},
          error : {T("access_denied"), T("unsuccessful_login")}]
    \cup [kind : {"timeout"}, state : {T("")}, code : {T("")}, error : {T("")}]

\* answers of the token endpoint
TokenResponses ==
    [status : {200}, access_token : {Some(T("AT1"))},
     refresh_token : {Some(T("RT1")), None}, expires_in : {3600},
     body : {T("{tokens}")}]
    \cup [status : {400}, access_token : {None}, refresh_token : {None},
          expires_in : {0}, body : {T("invalid_client")}]
    \cup [status : {200}, access_token : {None}, refresh_token : {None},
          expires_in : {0}, body : {T("{\"login\": \"successful\"}")}]

Clock == {1000}

-----------------------------------------------------------------------------
(* Initial state *)

NoFlow == [state |-> <<>>, code |-> <<>>, tokens |-> None,
           outcome |-> "NotStarted", url |-> <<>>]

Init ==
    /\ pc = "select"
    /\ file \in InitialFiles
    /\ file0 = file
    /\ selected_version = None
    /\ has_credentials = FALSE
    /\ answer = None
    /\ client_id = None
    /\ client_secret = None
    /\ typed = <<>>
    /\ typedFor = "select_version"
    /\ auth = None
    /\ flow = NoFlow
    /\ authCalls = 0
    /\ result = None
    /\ exit = None
    /\ failure = ""

-----------------------------------------------------------------------------
(* select_version and get_user_input: one turn of each prompt loop *)

\* VersionForChoice with a fault: the second choice returns the account domain
\* instead of the registry key
VersionForChoice_WrongKey(raw) ==
    LET choice == Strip(raw)
    IN IF choice = T("1") THEN Some(T("international"))
       ELSE IF choice = T("2") THEN Some(T("dida365"))
       ELSE None

\* select_version, one turn of its loop: the key returned for the choice
\* typed, None when the choice is invalid and the prompt is issued again
VersionForChoice(raw) ==
    LET choice == Strip(raw)
    IN IF choice = T("1") THEN Some(T("international"))
       ELSE IF choice = T("2") THEN Some(T("china"))
       ELSE None

\* ValueForInput with a fault: the input is tested and returned unstripped
ValueForInput_NoStrip(raw) ==
    IF raw # <<>> THEN Some(raw) ELSE None

\* get_user_input, one turn of its loop: the value returned for the input
\* typed, None when the value is falsy and the prompt is issued again
ValueForInput(raw) ==
    LET value == Strip(raw)
    IN IF value # <<>> THEN Some(value) ELSE None

\* the inputs of the prompt loop `name` so far, with one more
Typed(name, raw) ==
    IF typedFor = name THEN Append(typed, raw) ELSE <<raw>>
Retries(name) == IF typedFor = name THEN Len(typed) ELSE 0

\* main() ends by an uncaught exception
Raise(exc) ==
    /\ pc' = "raised"
    /\ failure' = exc

-----------------------------------------------------------------------------
(* main(), lines 33-79: deployment selection and credential collection *)

\* selected_version = select_version(); VERSION_CONFIGS[selected_version]
SelectVersion ==
    /\ pc = "select"
    /\ \E raw \in VersionInputs :
         LET r == VersionForChoice(raw) IN
         /\ typed' = Typed("select_version", raw)
         /\ typedFor' = "select_version"
         /\ IF IsNone(r)
            THEN /\ Retries("select_version") < MaxRetries
                 /\ UNCHANGED <<pc, selected_version, failure>>
            ELSE /\ selected_version' = r
                 /\ IF Val(r) \in DOMAIN VERSION_CONFIGS
                    THEN pc' = "check" /\ UNCHANGED failure
                    ELSE Raise("UnknownDeployment")
    /\ UNCHANGED <<file, file0, has_credentials, answer, client_id,
                   client_secret, auth, flow, authCalls, result, exit>>

\* the check of lines 45-53
HasCredentialsCheck(f) ==
    /\ f.exists
    /\ IsSubstring(T("TICKTICK_CLIENT_ID"), Content(f))
    /\ IsSubstring(T("TICKTICK_CLIENT_SECRET"), Content(f))

CheckCredentials ==
    /\ pc = "check"
    /\ has_credentials' = HasCredentialsCheck(file)
    /\ pc' = IF has_credentials' THEN "reuse" ELSE "id"
    /\ UNCHANGED <<file, file0, selected_version, answer, client_id,
                   client_secret, typed, typedFor, auth, flow, authCalls,
                   result, exit, failure>>

\* UseExisting with a fault: the answer is not lower-cased
UseExisting_CaseSensitive(raw) == Strip(raw) = T("y")

\* use_existing == 'y' for the answer typed at the reuse prompt
UseExisting(raw) == Strip(Lower(raw)) = T("y")

ReusePrompt ==
    /\ pc = "reuse"
    /\ \E raw \in AnswerInputs :
         /\ answer' = Some(raw)
         /\ pc' = IF UseExisting(raw) THEN "construct" ELSE "id"
    /\ typed' = <<>>
    /\ typedFor' = "none"
    /\ UNCHANGED <<file, file0, selected_version, has_credentials, client_id,
                   client_secret, auth, flow, authCalls, result, exit,
                   failure>>

\* client_id = get_user_input("Enter your Client ID: ")
EnterClientId ==
    /\ pc = "id"
    /\ \E raw \in UserInputs :
         LET r == ValueForInput(raw) IN
         /\ typed' = Typed("client_id", raw)
         /\ typedFor' = "client_id"
         /\ IF IsNone(r)
            THEN /\ Retries("client_id") < MaxRetries
                 /\ UNCHANGED <<pc, client_id>>
            ELSE /\ client_id' = r
                 /\ pc' = "secret"
    /\ UNCHANGED <<file, file0, selected_version, has_credentials, answer,
                   client_secret, auth, flow, authCalls, result, exit,
                   failure>>

\* client_secret = get_user_input("Enter your Client Secret: ")
EnterClientSecret ==
    /\ pc = "secret"
    /\ \E raw \in UserInputs :
         LET r == ValueForInput(raw) IN
         /\ typed' = Typed("client_secret", raw)
         /\ typedFor' = "client_secret"
         /\ IF IsNone(r)
            THEN /\ Retries("client_secret") < MaxRetries
                 /\ UNCHANGED <<pc, client_secret>>
            ELSE /\ client_secret' = r
                 /\ pc' = "construct"
    /\ UNCHANGED <<file, file0, selected_version, has_credentials, answer,
                   client_id, auth, flow, authCalls, result, exit, failure>>

-----------------------------------------------------------------------------
(* main(), lines 75-92: the auth manager and the persisted selection *)

\* TickTickAuth(client_id, client_secret): the credentials given, else the
\* ones the store holds
TickTickAuth(cid, csecret, f) ==
    [client_id |-> IF IsSome(cid) THEN cid ELSE Lookup(f, CLIENT_ID_KEY),
     client_secret |-> IF IsSome(csecret) THEN csecret
                       ELSE Lookup(f, CLIENT_SECRET_KEY),
     config |-> None]

Construct ==
    /\ pc = "construct"
    /\ auth' = Some(TickTickAuth(client_id, client_secret, file))
    /\ pc' = "setver"
    \* the prompts are over: their histories are dropped
    /\ typed' = <<>>
    /\ typedFor' = "none"
    /\ answer' = None
    /\ UNCHANGED <<file, file0, selected_version, has_credentials,
                   client_id, client_secret, flow, authCalls, result, exit,
                   failure>>

\* auth.set_version_config(selected_version)
SetVersionConfig ==
    /\ pc = "setver"
    /\ IF Val(selected_version) \in DOMAIN VERSION_CONFIGS
       THEN /\ auth' = Some([Val(auth) EXCEPT
                        !.config = Some(VERSION_CONFIGS[Val(selected_version)])])
            /\ pc' = "savever"
            /\ UNCHANGED failure
       ELSE /\ Raise("UnknownDeployment")
            /\ UNCHANGED auth
    /\ UNCHANGED <<file, file0, selected_version, has_credentials, answer,
                   client_id, client_secret, typed, typedFor, flow, authCalls,
                   result, exit>>

\* auth.save_version_config_to_env(selected_version): the write succeeds, or
\* fails with PersistenceError, which main() does not catch
SaveVersionConfig ==
    /\ pc = "savever"
    /\ \E written \in BOOLEAN :
         IF written
         THEN /\ file' = saveDeploymentSelection(file, Val(selected_version))
              /\ pc' = "auth"
              /\ UNCHANGED failure
         ELSE /\ Raise("PersistenceError")
              /\ UNCHANGED file
    /\ UNCHANGED <<file0, selected_version, has_credentials, answer,
                   client_id, client_secret, typed, typedFor, auth, flow,
                   authCalls, result, exit>>

-----------------------------------------------------------------------------
(* auth.start_auth_flow(): BuildAuthURL, AwaitRedirect, ExchangeToken,      *)
(* PersistTokens                                                           *)

FailureKinds == {"StateMismatch", "AuthorizationDenied",
                 "AuthorizationTimeout", "TokenExchangeError",
                 "PersistenceError"}

\* the explanation start_auth_flow returns: the reason, with what the
\* provider sent carried verbatim
FlowMessage(outcome, detail) ==
    CASE outcome = "Succeeded" ->
            T("Authentication successful! Tokens saved to the .env file.")
      [] outcome = "StateMismatch" ->
            T("State mismatch on the redirect (possible CSRF): ") \o detail
      [] outcome = "AuthorizationDenied" ->
            T("Authorization denied by the provider: ") \o detail
      [] outcome = "AuthorizationTimeout" ->
            T("Timed out waiting for the authorization redirect.")
      [] outcome = "TokenExchangeError" ->
            T("Token exchange failed: ") \o detail
      [] outcome = "PersistenceError" ->
            T("Could not write the tokens to the .env file.")

\* the flow reaches a terminal state and start_auth_flow returns its message
Return(outcome, detail) ==
    /\ flow' = [flow EXCEPT !.outcome = outcome]
    /\ result' = Some(FlowMessage(outcome, detail))
    /\ pc' = "returned"

OrEmpty(o) == IF IsSome(o) THEN Val(o) ELSE <<>>

AuthorizationURL(a, nonce) ==
    Val(a.config).authorizationEndpoint
        \o T("?client_id=") \o OrEmpty(a.client_id)
        \o T("&redirect_uri=http://localhost/callback")
        \o T("&response_type=code&state=") \o nonce
        \o T("&scope=tasks:read tasks:write")

\* result = auth.start_auth_flow(), entered: BuildAuthURL
StartAuthFlow ==
    /\ pc = "auth"
    /\ authCalls' = authCalls + 1
    /\ \E nonce \in Nonces :
         flow' = [state |-> nonce, code |-> <<>>, tokens |-> None,
                  outcome |-> "Running",
                  url |-> AuthorizationURL(Val(auth), nonce)]
    /\ pc' = "await"
    /\ UNCHANGED <<file, file0, selected_version, has_credentials, answer,
                   client_id, client_secret, typed, typedFor, auth, result,
                   exit, failure>>

\* the RedirectListener serves one request, or the wait times out
AwaitRedirect ==
    /\ pc = "await"
    /\ \E ev \in RedirectEvents :
         IF ev.kind = "timeout"
         THEN Return("AuthorizationTimeout", <<>>)
         ELSE IF ev.state # flow.state
         THEN Return("StateMismatch", ev.state)
         ELSE IF ev.kind = "error"
         THEN Return("AuthorizationDenied", ev.error)
         ELSE /\ flow' = [flow EXCEPT !.code = ev.code]
              /\ pc' = "exchange"
              /\ UNCHANGED result
    /\ UNCHANGED <<file, file0, selected_version, has_credentials, answer,
                   client_id, client_secret, typed, typedFor, auth, authCalls,
                   exit, failure>>

TokenRecord(resp, now, deployment) ==
    [accessToken |-> Val(resp.access_token),
     refreshToken |-> resp.refresh_token,
     expiresAt |-> now + resp.expires_in,
     deployment |-> deployment]

\* POST to the token endpoint
ExchangeToken ==
    /\ pc = "exchange"
    /\ \E resp \in TokenResponses, now \in Clock :
         IF resp.status \notin 200..299 \/ IsNone(resp.access_token)
         THEN Return("TokenExchangeError",
                     Decimal(resp.status) \o T(" ") \o resp.body)
         ELSE /\ flow' = [flow EXCEPT !.tokens =
                    Some(TokenRecord(resp, now, Val(auth).config[1].key))]
              /\ pc' = "persist"
              /\ UNCHANGED result
    /\ UNCHANGED <<file, file0, selected_version, has_credentials, answer,
                   client_id, client_secret, typed, typedFor, auth, authCalls,
                   exit, failure>>

\* PersistTokens with a fault: a failed write leaves the access token behind
PersistTokens_PartialWrite ==
    /\ pc = "persist"
    /\ \E written \in BOOLEAN :
         IF written
         THEN /\ file' = saveTokens(file, Val(flow.tokens))
              /\ Return("Succeeded", <<>>)
         ELSE /\ file' = SetKey(file, ACCESS_TOKEN_KEY,
                                Val(flow.tokens).accessToken)
              /\ Return("PersistenceError", <<>>)
    /\ UNCHANGED <<file0, selected_version, has_credentials, answer,
                   client_id, client_secret, typed, typedFor, auth, authCalls,
                   exit, failure>>

\* save the TokenRecord: the write succeeds or fails
PersistTokens ==
    /\ pc = "persist"
    /\ \E written \in BOOLEAN :
         IF written
         THEN /\ file' = saveTokens(file, Val(flow.tokens))
              /\ Return("Succeeded", <<>>)
         ELSE /\ Return("PersistenceError", <<>>)
              /\ UNCHANGED file
    /\ UNCHANGED <<file0, selected_version, has_credentials, answer,
                   client_id, client_secret, typed, typedFor, auth, authCalls,
                   exit, failure>>

-----------------------------------------------------------------------------
(* main(), lines 94-120: the exit status *)

\* "successful" in result.lower()
LooksSuccessful(message) ==
    IsSubstring(T("successful"), Lower(message))

ExitStatus(message) == IF LooksSuccessful(message) THEN 0 ELSE 1

\* MainReturn with a fault: a failed flow sends main() back to the selection
MainReturn_RetryOnFailure ==
    /\ pc = "returned"
    /\ IF LooksSuccessful(Val(result))
       THEN exit' = Some(0) /\ pc' = "done"
       ELSE exit' = None /\ pc' = "select"
    /\ UNCHANGED <<file, file0, selected_version, has_credentials, answer,
                   client_id, client_secret, typed, typedFor, auth, flow,
                   authCalls, result, failure>>

MainReturn ==
    /\ pc = "returned"
    /\ exit' = Some(ExitStatus(Val(result)))
    /\ pc' = "done"
    /\ UNCHANGED <<file, file0, selected_version, has_credentials, answer,
                   client_id, client_secret, typed, typedFor, auth, flow,
                   authCalls, result, failure>>

Next ==
    \/ SelectVersion
    \/ CheckCredentials
    \/ ReusePrompt
    \/ EnterClientId
    \/ EnterClientSecret
    \/ Construct
    \/ SetVersionConfig
    \/ SaveVersionConfig
    \/ StartAuthFlow
    \/ AwaitRedirect
    \/ ExchangeToken
    \/ PersistTokens
    \/ MainReturn

Spec == Init /\ [][Next]_vars

-----------------------------------------------------------------------------
(* Vocabulary of the properties *)

AllWhitespace(s) == \A i \in 1..Len(s) : s[i] \in Whitespace

\* v is raw without the whitespace around it, and v is not empty
IsStrippedFormOf(v, raw) ==
    /\ Len(v) > 0
    /\ v[1] \notin Whitespace
    /\ v[Len(v)] \notin Whitespace
    /\ \E i \in 1..(Len(raw) - Len(v) + 1) :
         /\ SubSeq(raw, i, i + Len(v) - 1) = v
         /\ AllWhitespace(SubSeq(raw, 1, i - 1))
         /\ AllWhitespace(SubSeq(raw, i + Len(v), Len(raw)))

\* value is the stripped form of the last input, and every input before it
\* was blank
ReturnedFirstNonBlank(inputs, value) ==
    /\ Len(inputs) >= 1
    /\ \A j \in 1..(Len(inputs) - 1) : AllWhitespace(inputs[j])
    /\ IsStrippedFormOf(value, inputs[Len(inputs)])

NotSelectionLine(line) ==
    \A k \in CredentialKeys \cup {VERSION_KEY} : ~Binds(line, k)
NotVersionLine(line) == ~Binds(line, VERSION_KEY)

Terminated == pc \in {"returned", "done"}

PcOrder == <<"select", "check", "reuse", "id", "secret", "construct",
             "setver", "savever", "auth", "await", "exchange", "persist",
             "returned", "done", "raised">>
Rank(p) == CHOOSE i \in 1..Len(PcOrder) : PcOrder[i] = p

YesAnswers == {T("y"), PaddedYes}

-----------------------------------------------------------------------------
(* Properties *)

\* C1: when start_auth_flow has ended in a failure outcome the store differs
\* from the store main() started with at most in the client id/secret lines
\* and the deployment-selection line, and the token keys are unchanged; when
\* it has ended Succeeded the store holds the tokens of the exchange.
C1_TokensOnlyOnSuccess ==
    Terminated =>
      /\ flow.outcome \in FailureKinds \cup {"Succeeded"}
      /\ flow.outcome \in FailureKinds =>
           /\ \A k \in TokenKeys : Lookup(file, k) = Lookup(file0, k)
           /\ SelectSeq(file.lines, NotSelectionLine)
                = SelectSeq(file0.lines, NotSelectionLine)
      /\ flow.outcome = "Succeeded" =>
           /\ Lookup(file, ACCESS_TOKEN_KEY)
                = Some(Val(flow.tokens).accessToken)
           /\ IsSome(Val(flow.tokens).refreshToken) =>
                Lookup(file, REFRESH_TOKEN_KEY) = Val(flow.tokens).refreshToken
           /\ Lookup(file, TOKEN_EXPIRY_KEY) = Some(T("4600"))

C1_Witness ==
    /\ pc = "done"
    /\ flow.outcome = "PersistenceError"
    /\ Lookup(file0, ACCESS_TOKEN_KEY) = Some(T("AT0"))
    /\ Lookup(file, ACCESS_TOKEN_KEY) = Some(T("AT0"))
    /\ Lookup(file0, VERSION_KEY) = Some(T("china"))
    /\ Lookup(file, VERSION_KEY) = Some(T("international"))

\* C2: start_auth_flow is entered only when the store holds the client id and
\* secret the flow uses and the deployment key select_version returned, and
\* it is never entered after the write of the selection has failed.
C2_StoreHoldsFlowInputs ==
    /\ pc = "auth" =>
         /\ Lookup(file, CLIENT_ID_KEY) = Val(auth).client_id
         /\ Lookup(file, CLIENT_SECRET_KEY) = Val(auth).client_secret
         /\ Lookup(file, VERSION_KEY) = selected_version
    /\ failure = "PersistenceError" => authCalls = 0

\* C3: when start_auth_flow is reached the client id and the client secret
\* in effect are both non-empty strings.
C3_FlowCredentialsNonEmpty ==
    pc = "auth" =>
      /\ IsSome(Val(auth).client_id)
      /\ IsSome(Val(auth).client_secret)
      /\ Len(OrEmpty(Val(auth).client_id)) > 0
      /\ Len(OrEmpty(Val(auth).client_secret)) > 0

\* C4: has_credentials is true exactly when the file exists and binds both
\* the TICKTICK_CLIENT_ID key and the TICKTICK_CLIENT_SECRET key.
C4_HasCredentialsIffBothKeys ==
    pc \notin {"select", "check"} =>
      (has_credentials <=>
         HasKey(file0, CLIENT_ID_KEY) /\ HasKey(file0, CLIENT_SECRET_KEY))

\* C5: get_user_input returns the stripped form of the first input that is
\* not blank, never an empty string, and while its inputs are blank it
\* prompts again and nothing else changes.
C5_FirstNonBlankInput ==
    /\ pc = "id" =>
         /\ typedFor = "client_id" => \A j \in 1..Len(typed) :
                                         AllWhitespace(typed[j])
         /\ client_id = None /\ client_secret = None
         /\ file = file0 /\ auth = None /\ failure = ""
    /\ pc = "secret" =>
         /\ typedFor = "client_secret" => \A j \in 1..Len(typed) :
                                             AllWhitespace(typed[j])
         /\ typedFor = "client_id" =>
              ReturnedFirstNonBlank(typed, Val(client_id))
         /\ IsSome(client_id) /\ client_secret = None
         /\ file = file0 /\ auth = None /\ failure = ""
    /\ pc = "construct" /\ typedFor = "client_secret" =>
         ReturnedFirstNonBlank(typed, Val(client_secret))
    /\ IsSome(client_id) => Len(Val(client_id)) > 0
    /\ IsSome(client_secret) => Len(Val(client_secret)) > 0

C5_Witness ==
    /\ pc = "secret"
    /\ typedFor = "client_id"
    /\ typed = <<T(""), BlankLine, PaddedValue>>
    /\ client_id = Some(T("a b"))

\* C6: select_version returns 'international' for the choice 1 and 'china'
\* for the choice 2 (whitespace around the choice ignored) and prompts again
\* for every other input, so the key main() looks up, configures and persists
\* is a recognized one and UnknownDeployment never happens.
C6_RecognizedDeployment ==
    /\ failure # "UnknownDeployment"
    /\ pc = "select" =>
         /\ selected_version = None
         /\ \A j \in 1..Len(typed) :
              ~IsStrippedFormOf(T("1"), typed[j]) /\ ~IsStrippedFormOf(T("2"), typed[j])
    /\ pc # "select" =>
         /\ selected_version \in {Some(T("international")), Some(T("china"))}
    /\ pc = "check" =>
         /\ Len(typed) >= 1
         /\ \A j \in 1..(Len(typed) - 1) :
              ~IsStrippedFormOf(T("1"), typed[j]) /\ ~IsStrippedFormOf(T("2"), typed[j])
         /\ selected_version = Some(T("international"))
              <=> IsStrippedFormOf(T("1"), typed[Len(typed)])
         /\ selected_version = Some(T("china"))
              <=> IsStrippedFormOf(T("2"), typed[Len(typed)])
    /\ IsSome(auth) /\ pc \notin {"setver", "raised"} =>
         /\ IsSome(Val(auth).config)
         /\ Val(Val(auth).config).key = Val(selected_version)
    /\ pc \in {"auth", "await", "exchange", "persist", "returned", "done"} =>
         Lookup(file, VERSION_KEY) = selected_version

C6_Witness ==
    /\ pc = "check"
    /\ typed = <<T("3"), T(""), PaddedChoice>>
    /\ selected_version = Some(T("china"))

\* C7: start_auth_flow is called at most once; once it has returned main()
\* only computes its exit status and stops; no step of main() is entered
\* again, and the only steps that repeat are the prompts of select_version
\* and get_user_input.
C7_NoAutomaticRetry ==
    [][ /\ authCalls' <= 1
        /\ pc \notin {"done", "raised"}
        /\ pc = "returned" =>
             /\ pc' = "done"
             /\ UNCHANGED <<file, selected_version, has_credentials,
                            client_id, client_secret, auth, flow, authCalls,
                            result>>
        /\ pc' = pc => pc \in {"select", "id", "secret"}
        /\ pc' # pc => Rank(pc') > Rank(pc) ]_vars

C7_Witness ==
    /\ pc = "done"
    /\ flow.outcome = "TokenExchangeError"
    /\ authCalls = 1
    /\ exit = Some(1)

\* C8: once the deployment selection is persisted the store holds the
\* selected key, and the client id/secret keys, the token keys and every
\* other line are as they were, also when the selected deployment is not the
\* one the stored tokens belong to.
C8_SelectionWriteKeepsOtherKeys ==
    pc = "auth" =>
      /\ Lookup(file, VERSION_KEY) = selected_version
      /\ \A k \in CredentialKeys \cup TokenKeys :
           Lookup(file, k) = Lookup(file0, k)
      /\ SelectSeq(file.lines, NotVersionLine)
           = SelectSeq(file0.lines, NotVersionLine)

C8_Witness ==
    /\ pc = "auth"
    /\ Lookup(file0, VERSION_KEY) = Some(T("china"))
    /\ selected_version = Some(T("international"))
    /\ Lookup(file, VERSION_KEY) = Some(T("international"))
    /\ Lookup(file, ACCESS_TOKEN_KEY) = Some(T("AT0"))
    /\ Lookup(file, REFRESH_TOKEN_KEY) = Some(T("RT0"))
    /\ Lookup(file, CLIENT_ID_KEY) = Some(T("CID0"))

\* C9: main() returns 0 exactly when the flow ended Succeeded and 1 for
\* every Failed outcome.
C9_ExitZeroIffSucceeded ==
    pc = "done" => (exit = Some(0) <=> flow.outcome = "Succeeded")

\* C10: when TickTickAuth is constructed client_id and client_secret are
\* both None or both non-empty strings; they are None exactly when
\* has_credentials was true and the answer to the reuse prompt is 'y' once
\* lower-cased and stripped, and otherwise both came from get_user_input.
C10_BothOrNeither ==
    pc = "construct" =>
      /\ IsNone(client_id) <=> IsNone(client_secret)
      /\ IsNone(client_id) <=>
           (has_credentials /\ answer \in {Some(a) : a \in YesAnswers})
      /\ IsSome(client_id) =>
           /\ \E raw \in UserInputs : IsStrippedFormOf(Val(client_id), raw)
           /\ typedFor = "client_secret"
           /\ ReturnedFirstNonBlank(typed, Val(client_secret))

C10_Witness ==
    /\ pc = "construct"
    /\ has_credentials
    /\ answer = Some(T("yes"))
    /\ client_id = Some(T("CID1"))
    /\ client_secret = Some(T("a b"))

====
